---- MODULE Spec2Model ----
(***************************************************************************)
(* A model of secretstorage/util.py: the error-translating D-Bus address  *)
(* wrapper, session negotiation (open_session), the formatting of secrets  *)
(* (format_secret), the prompt/unlock coordination (exec_prompt,           *)
(* unlock_objects) over a blocking jeepney connection shared by several    *)
(* threads, and the setting up and closing of that connection (dbus_init,  *)
(* add_match_rules, the context managers).                                 *)
(***************************************************************************)
EXTENDS Integers, Sequences, FiniteSets, TLC

\* ------------------------------------------------------------------ bounds
\* Signals the service emits during one run.
MaxSignals == 2
\* Messages one sock.recv() / parser.feed() may hand to recv_messages.
MaxBatch == 2
\* Every secret length up to this one is handed to format_secret (one block
\* and one byte); some longer secrets are listed in Secrets.
MaxSecretLen == 17
\* format_secret calls made with one Session.
MaxFormats == 2
\* RPCs attempted on one connection, inside and after a with-block.
MaxRpcs == 2

\* ------------------------------------------------------- program constants
BUS_NAME == "org.freedesktop.secrets"
SS_PREFIX == "org.freedesktop.Secret."
SS_PATH == "/org/freedesktop/secrets"
SERVICE_IFACE == SS_PREFIX \o "Service"
PROMPT_IFACE == SS_PREFIX \o "Prompt"

\* Error names and algorithm identifiers imported from secretstorage.defines.
DBUS_UNKNOWN_METHOD == "org.freedesktop.DBus.Error.UnknownMethod"
DBUS_NO_SUCH_OBJECT == "org.freedesktop.Secret.Error.NoSuchObject"
DBUS_SERVICE_UNKNOWN == "org.freedesktop.DBus.Error.ServiceUnknown"
DBUS_EXEC_FAILED == "org.freedesktop.DBus.Error.Spawn.ExecFailed"
DBUS_NO_REPLY == "org.freedesktop.DBus.Error.NoReply"
DBUS_NOT_SUPPORTED == "org.freedesktop.DBus.Error.NotSupported"
ALGORITHM_PLAIN == "plain"
ALGORITHM_DH == "dh-ietf1024-sha256-aes128-cbc-pkcs7"

\* An error name the wrapper knows nothing about.
DBUS_ACCESS_DENIED == "org.freedesktop.DBus.Error.AccessDenied"

ErrorNames ==
    { DBUS_UNKNOWN_METHOD, DBUS_NO_SUCH_OBJECT, DBUS_SERVICE_UNKNOWN,
      DBUS_EXEC_FAILED, DBUS_NO_REPLY, DBUS_NOT_SUPPORTED, DBUS_ACCESS_DENIED }

\* --------------------------------------------------------------- data
\* Python's None / a set value, as the empty / one-element sequence.
None == <<>>
Some(v) == <<v>>

\* The payload of an error reply (DBusErrorResponse.data): the message body,
\* a tuple of any length, or (from a connection that hands over something
\* else) a bare value.  A bare value v is kept as elems = <<v>>.
Payloads ==
    { [tuple |-> TRUE, elems |-> <<>>],
      [tuple |-> TRUE, elems |-> <<"no such name">>],
      [tuple |-> TRUE, elems |-> <<"no such name", "detail">>],
      [tuple |-> FALSE, elems |-> <<"bare reason">>] }

NoData == [tuple |-> TRUE, elems |-> <<>>]

\* The error replies the service gives in the prompt flows: every error name
\* with a one-string body, and a translated name with an empty body.
PromptErrors ==
    { <<n, [tuple |-> TRUE, elems |-> <<"no such name">>]>> : n \in ErrorNames }
    \cup { <<DBUS_NO_REPLY, [tuple |-> TRUE, elems |-> <<>>]>> }

\* The variant carried by a Completed signal: (signature, value).  The value
\* of an "ao" variant is a list of object paths; the value of the "s" variant
\* is the empty string, which is the empty sequence.
Results ==
    { [sig |-> "ao", val |-> <<>>],
      [sig |-> "ao", val |-> <<"/org/freedesktop/secrets/collection/c1">>],
      [sig |-> "s", val |-> <<>>] }

NoVariant == [sig |-> "", val |-> <<>>]
OtherResult ==
    [sig |-> "ao", val |-> <<"/org/freedesktop/secrets/collection/c2">>]

PathA == "/org/freedesktop/secrets/prompt/a"
PathB == "/org/freedesktop/secrets/prompt/b"
PromptPaths == { PathA, PathB }
\* What the 'Unlock' reply may carry as its prompt object path.
PromptHandles == { "", "/" } \cup PromptPaths

Threads == { 1, 2 }

\* --------------------------------------------------------------- messages
Msg(type, serial, path, iface, member, ename, d, r, p, data) ==
    [ type |-> type, reply_serial |-> serial, path |-> path,
      interface |-> iface, member |-> member, error_name |-> ename,
      dismissed |-> d, result |-> r, prompt |-> p, data |-> data ]

MethodReturn(serial, p) ==
    Msg("method_return", serial, "", "", "", "", 0, NoVariant, p, NoData)

ErrorReply(serial, ename, data) ==
    Msg("error", serial, "", "", "", ename, 0, NoVariant, "", data)

Signal(path, iface, member, d, r) ==
    Msg("signal", 0, path, iface, member, "", d, r, "", NoData)

\* Traffic on the shared connection that belongs to no prompt flow: the bus
\* daemon's NameAcquired signal and a reply whose serial nobody awaits.
NoiseMessages ==
    { Signal("/org/freedesktop/DBus", "org.freedesktop.DBus", "NameAcquired",
             0, NoVariant),
      MethodReturn(0, "") }

\* ------------------------------------ DBusAddressWrapper.send_and_get_reply
NoExc == [kind |-> "", name |-> "", msg |-> "", data |-> NoData]
Exc(kind, name, msg, data) ==
    [kind |-> kind, name |-> name, msg |-> msg, data |-> data]

\* resp.name in (DBUS_UNKNOWN_METHOD, DBUS_NO_SUCH_OBJECT)
IsNotFoundName(name) == name \in { DBUS_UNKNOWN_METHOD, DBUS_NO_SUCH_OBJECT }

\* resp.name in (DBUS_SERVICE_UNKNOWN, DBUS_EXEC_FAILED, DBUS_NO_REPLY)
IsUnavailableName(name) ==
    name \in { DBUS_SERVICE_UNKNOWN, DBUS_EXEC_FAILED, DBUS_NO_REPLY }

\* The except clause: the exception that leaves send_and_get_reply when the
\* connection raised DBusErrorResponse(name, data).  data[0] of an empty
\* tuple raises IndexError.
TranslateError(name, data) ==
    IF IsNotFoundName(name)
    THEN Exc("ItemNotFoundException", "", "Item does not exist!", NoData)
    ELSE IF IsUnavailableName(name)
    THEN IF data.tuple /\ Len(data.elems) = 0
         THEN Exc("IndexError", "", "tuple index out of range", NoData)
         ELSE Exc("SecretServiceNotAvailableException", "", data.elems[1], NoData)
    ELSE Exc("DBusErrorResponse", name, "", data)

\* Faulty variant: an error reply is returned like any other reply.
SendAndGetReplySwallows(reply) == [ok |-> TRUE, value |-> reply, exc |-> NoExc]

\* send_and_get_reply on a completed future: the reply is returned as it is,
\* an error reply leaves as the translated exception.
SendAndGetReply(reply) ==
    IF reply.type = "error"
    THEN [ok |-> FALSE, value |-> reply,
          exc |-> TranslateError(reply.error_name, reply.data)]
    ELSE [ok |-> TRUE, value |-> reply, exc |-> NoExc]

\* The failures the wrapper's policy lets a caller see.
PolicyKinds ==
    { "ItemNotFoundException", "SecretServiceNotAvailableException",
      "DBusErrorResponse" }

\* ------------------------------------------------------------- state
VARIABLES
    \* --- prompt coordination: one invocation per thread, one connection
    pc,               \* thread -> the line of util.py the thread stands at
    entry,            \* thread -> the function the caller invoked
    prompt_path,      \* thread -> exec_prompt's prompt_path argument
    prompt,           \* thread -> unlock_objects' prompt, from the 'Unlock' reply
    dismissed,        \* thread -> exec_prompt's closure variable (None | bool)
    result,           \* thread -> exec_prompt's closure variable (None | variant)
    exec_ret,         \* thread -> what exec_prompt returned (None | pair)
    ret,              \* thread -> what unlock_objects returned (None | bool)
    err,              \* thread -> the exception that left the invocation
    signal_callbacks, \* router: the ((path, interface, member), subscriber) entries
    awaiting_reply,   \* router: the (serial, thread) pairs with a pending future
    reply,            \* thread -> the completed future of its call (None | msg)
    outgoing_serial,  \* connection: serial of the last message sent
    pending,          \* service: the calls received and not yet answered
    inbound,          \* messages the service has sent, not yet read
    emitted,          \* number of signals the service has emitted
    last,             \* thread -> the last signal its callback was run on
    subs,             \* thread -> subscribe_signal calls it made
    prompts,          \* thread -> 'Prompt' calls it sent
    waits             \* thread -> recv_messages calls made by exec_prompt itself

pvars == << pc, entry, prompt_path, prompt, dismissed, result, exec_ret, ret, err,
            signal_callbacks, awaiting_reply, reply, outgoing_serial, pending,
            inbound, emitted, last, subs, prompts, waits >>

VARIABLES
    \* --- session negotiation and secret formatting, one caller
    s_pc,        \* the line of open_session the caller stands at
    session,     \* open_session's local Session object
    s_calls,     \* the 'OpenSession' calls sent so far: (algorithm, variant)
    s_reply,     \* the service's reply to the call in flight (None | msg)
    s_replies,   \* the replies received so far
    s_ret,       \* the Session open_session returned (None | Session)
    s_err,       \* the exception that left open_session
    s_path_sets, \* assignments made to session.object_path
    secret_out,  \* the last tuple format_secret returned (None | tuple)
    secret_in,   \* the arguments of that format_secret call (None | record)
    s_formats    \* format_secret calls made with the returned Session

svars == << s_pc, session, s_calls, s_reply, s_replies, s_ret, s_err,
            s_path_sets, secret_out, secret_in, s_formats >>

VARIABLES
    \* --- one RPC through a DBusAddressWrapper
    r_pc,     \* idle | sent | returned | raised
    r_method, \* the wrapper method used: call | get_property | set_property
    r_reply,  \* what the connection's send_and_get_reply gives (None | msg)
    r_raw,    \* the reply the wrapper was given, kept for reference
    r_out,    \* what the wrapper method returned
    r_err     \* the exception that left the wrapper method

rvars == << r_pc, r_method, r_reply, r_raw, r_out, r_err >>

VARIABLES
    \* --- one connection: dbus_init, the with statement around it, its socket
    c_pc,         \* idle | L199 | L171 | returned | body | exited | raised
    c_use,        \* how the caller gets the connection (see Uses)
    c_sock,       \* the D-Bus socket: none | open | closed
    c_connection, \* what dbus_init handed to its caller (None | object)
    c_calls,      \* the calls dbus_init sent on the connection
    c_reply,      \* the bus daemon's reply to 'AddMatch' (None | msg)
    c_raw,        \* the reply add_match_rules was given, kept for reference
    c_rules,      \* the match rules the bus daemon holds for the connection
    c_err,        \* the exception that left dbus_init or the with statement
    c_body_exc,   \* the exception the body of the with statement raised
    c_rpcs        \* what the caller attempted on the connection, in order

cvars == << c_pc, c_use, c_sock, c_connection, c_calls, c_reply, c_raw, c_rules,
            c_err, c_body_exc, c_rpcs >>

vars == << pvars, svars, rvars, cvars >>

\* ------------------------------------------------- jeepney router/connection
\* exec_prompt's callback, run on the body of a signal for thread t's closure:
\* dismissed, result = bool(_dismissed), _result
Bool(x) == x # 0

\* Faulty variant: the dismissed flag is stored negated.
CallbackSwapped(c, t, msg) ==
    [c EXCEPT !.dismissed[t] = Some(~Bool(msg.dismissed)),
              !.result[t] = Some(msg.result),
              !.last[t] = Some(msg)]

Callback(c, t, msg) ==
    [c EXCEPT !.dismissed[t] = Some(Bool(msg.dismissed)),
              !.result[t] = Some(msg.result),
              !.last[t] = Some(msg)]

\* Router.incoming: a signal goes to the callback subscribed for its
\* (path, interface, member), a reply completes the future awaiting its
\* serial, anything else is dropped.
Subscribers(callbacks, key) == { e[2] : e \in { x \in callbacks : x[1] = key } }

Incoming(c, msg) ==
    IF msg.type = "signal"
       /\ Subscribers(c.signal_callbacks, <<msg.path, msg.interface, msg.member>>) # {}
    THEN Callback(c,
                  CHOOSE t \in Subscribers(c.signal_callbacks,
                                           <<msg.path, msg.interface, msg.member>>) : TRUE,
                  msg)
    ELSE IF msg.type # "signal"
            /\ \E t \in Threads : <<msg.reply_serial, t>> \in c.awaiting_reply
    THEN LET t == CHOOSE u \in Threads : <<msg.reply_serial, u>> \in c.awaiting_reply
         IN  [c EXCEPT !.awaiting_reply = @ \ { <<msg.reply_serial, t>> },
                       !.reply[t] = Some(msg)]
    ELSE c

\* recv_messages: every message of one read is handed to Router.incoming, in
\* order.
RECURSIVE Dispatch(_, _)
Dispatch(c, msgs) ==
    IF msgs = <<>> THEN c
    ELSE Dispatch(Incoming(c, Head(msgs)), Tail(msgs))

RouterState ==
    [ dismissed |-> dismissed, result |-> result, last |-> last,
      signal_callbacks |-> signal_callbacks,
      awaiting_reply |-> awaiting_reply, reply |-> reply ]

\* One recv_messages call that reads the first k inbound messages.
RecvMessages(k) ==
    LET c == Dispatch(RouterState, SubSeq(inbound, 1, k))
    IN  /\ k >= 1
        /\ k <= Len(inbound)
        /\ k <= MaxBatch
        /\ inbound' = SubSeq(inbound, k + 1, Len(inbound))
        /\ dismissed' = c.dismissed
        /\ result' = c.result
        /\ last' = c.last
        /\ awaiting_reply' = c.awaiting_reply
        /\ reply' = c.reply

\* send_message: the next serial, a future registered for it, the call handed
\* to the service.
SendMessage(t, method, path) ==
    /\ outgoing_serial' = outgoing_serial + 1
    /\ awaiting_reply' = awaiting_reply \cup { <<outgoing_serial + 1, t>> }
    /\ pending' = pending \cup
           { [serial |-> outgoing_serial + 1, method |-> method, path |-> path] }

\* ------------------------------------------------ exec_prompt, unlock_objects
\* connection.router.subscribe_signal(callback, prompt_path, PROMPT_IFACE,
\* 'Completed'): the key the callback is stored under.
\* Faulty variant: every callback is stored under the same path.
SubscribeKeyFixed(path) == << PathA, PROMPT_IFACE, "Completed" >>
SubscribeKey(path) == << path, PROMPT_IFACE, "Completed" >>

\* if len(prompt) > 1
\* Faulty variant: only the empty path counts as "no prompt".
NeedsPromptNonEmpty(handle) == Len(handle) > 0
NeedsPrompt(handle) == Len(handle) > 1

\* assert dismissed is not None; assert result is not None
\* Faulty variant: the assertions are missing.
AssertsOff(d, r) == TRUE
AssertsHold(d, r) == d # None /\ r # None

\* assert signature == 'ao'
SignatureOk(signature) == signature = "ao"

\* What unlock_objects returns from exec_prompt's pair.
UnlockReturn(d, r) == d

Raise(t, e) ==
    /\ pc' = [pc EXCEPT ![t] = "raised"]
    /\ err' = [err EXCEPT ![t] = e]

AssertionError == Exc("AssertionError", "", "", NoData)
TypeError == Exc("TypeError", "", "", NoData)

\* unlock_objects(connection, paths) is called: the 'Unlock' call is sent.
UnlockObjects(t) ==
    /\ pc[t] = "idle"
    /\ entry' = [entry EXCEPT ![t] = "unlock_objects"]
    /\ SendMessage(t, "Unlock", SS_PATH)
    /\ pc' = [pc EXCEPT ![t] = "L149"]
    /\ UNCHANGED << prompt_path, prompt, dismissed, result, exec_ret, ret, err,
                    signal_callbacks, reply, inbound, emitted, last, subs,
                    prompts, waits >>
    /\ UNCHANGED << svars, rvars, cvars >>

\* exec_prompt(connection, path) is called by another caller than
\* unlock_objects (Item.delete, Collection.delete, create_collection).
ExecPrompt(t, path) ==
    /\ pc[t] = "idle"
    /\ entry' = [entry EXCEPT ![t] = "exec_prompt"]
    /\ prompt_path' = [prompt_path EXCEPT ![t] = path]
    /\ pc' = [pc EXCEPT ![t] = "L134"]
    /\ UNCHANGED << prompt, dismissed, result, exec_ret, ret, err, signal_callbacks,
                    awaiting_reply, reply, outgoing_serial, pending, inbound,
                    emitted, last, subs, prompts, waits >>
    /\ UNCHANGED << svars, rvars, cvars >>

\* Lines 128-134: the closure variables are None, the callback is subscribed.
Subscribe(t) ==
    /\ pc[t] = "L134"
    /\ dismissed' = [dismissed EXCEPT ![t] = None]
    /\ result' = [result EXCEPT ![t] = None]
    /\ signal_callbacks' =
           { e \in signal_callbacks : e[1] # SubscribeKey(prompt_path[t]) }
           \cup { << SubscribeKey(prompt_path[t]), t >> }
    /\ subs' = [subs EXCEPT ![t] = @ + 1]
    /\ pc' = [pc EXCEPT ![t] = "L135"]
    /\ UNCHANGED << entry, prompt_path, prompt, exec_ret, ret, err, awaiting_reply,
                    reply, outgoing_serial, pending, inbound, emitted, last,
                    prompts, waits >>
    /\ UNCHANGED << svars, rvars, cvars >>

\* Line 135: prompt.call('Prompt', 's', '') sends the call.
PromptCall(t) ==
    /\ pc[t] = "L135"
    /\ SendMessage(t, "Prompt", prompt_path[t])
    /\ prompts' = [prompts EXCEPT ![t] = @ + 1]
    /\ pc' = [pc EXCEPT ![t] = "L135_wait"]
    /\ UNCHANGED << entry, prompt_path, prompt, dismissed, result, exec_ret, ret, err,
                    signal_callbacks, reply, inbound, emitted, last, subs,
                    waits >>
    /\ UNCHANGED << svars, rvars, cvars >>

\* send_and_get_reply's loop, "while not future.done()": the future is not
\* done and the thread enters recv_messages.
CallEnterRecv(t) ==
    /\ pc[t] \in { "L149", "L135_wait" }
    /\ reply[t] = None
    /\ pc' = [pc EXCEPT ![t] = IF pc[t] = "L149" THEN "L149_recv" ELSE "L135_recv"]
    /\ UNCHANGED << entry, prompt_path, prompt, dismissed, result, exec_ret, ret, err,
                    signal_callbacks, awaiting_reply, reply, outgoing_serial,
                    pending, inbound, emitted, last, subs, prompts, waits >>
    /\ UNCHANGED << svars, rvars, cvars >>

\* ... recv_messages reads k messages and dispatches them; back to the test.
CallRecv(t, k) ==
    /\ pc[t] \in { "L149_recv", "L135_recv" }
    /\ RecvMessages(k)
    /\ pc' = [pc EXCEPT ![t] = IF pc[t] = "L149_recv" THEN "L149" ELSE "L135_wait"]
    /\ UNCHANGED << entry, prompt_path, prompt, exec_ret, ret, err, signal_callbacks,
                    outgoing_serial, pending, emitted, subs, prompts, waits >>
    /\ UNCHANGED << svars, rvars, cvars >>

\* Lines 149-154: the 'Unlock' call is over.
UnlockReplied(t) ==
    /\ pc[t] = "L149"
    /\ reply[t] # None
    /\ LET r == SendAndGetReply(reply[t][1])
       IN  IF ~r.ok
           THEN /\ Raise(t, r.exc)
                /\ UNCHANGED << prompt_path, prompt, ret >>
           ELSE /\ prompt' = [prompt EXCEPT ![t] = Some(r.value.prompt)]
                /\ IF NeedsPrompt(r.value.prompt)
                   THEN /\ prompt_path' = [prompt_path EXCEPT ![t] = r.value.prompt]
                        /\ pc' = [pc EXCEPT ![t] = "L134"]
                        /\ UNCHANGED << ret, err >>
                   ELSE /\ ret' = [ret EXCEPT ![t] = Some(FALSE)]
                        /\ pc' = [pc EXCEPT ![t] = "done"]
                        /\ UNCHANGED << prompt_path, err >>
    /\ reply' = [reply EXCEPT ![t] = None]
    /\ UNCHANGED << entry, dismissed, result, exec_ret, signal_callbacks,
                    awaiting_reply, outgoing_serial, pending, inbound, emitted,
                    last, subs, prompts, waits >>
    /\ UNCHANGED << svars, rvars, cvars >>

\* Lines 135-137: the 'Prompt' call is over; "if result is None" decides
\* whether recv_messages is called.
PromptReplied(t) ==
    /\ pc[t] = "L135_wait"
    /\ reply[t] # None
    /\ LET r == SendAndGetReply(reply[t][1])
       IN  IF ~r.ok
           THEN Raise(t, r.exc)
           ELSE /\ pc' = [pc EXCEPT ![t] = IF result[t] = None THEN "L137" ELSE "L138"]
                /\ UNCHANGED err
    /\ reply' = [reply EXCEPT ![t] = None]
    /\ UNCHANGED << entry, prompt_path, prompt, dismissed, result, exec_ret, ret,
                    signal_callbacks, awaiting_reply, outgoing_serial, pending,
                    inbound, emitted, last, subs, prompts, waits >>
    /\ UNCHANGED << svars, rvars, cvars >>

\* Line 137: connection.recv_messages(), once.
WaitRecv(t, k) ==
    /\ pc[t] = "L137"
    /\ RecvMessages(k)
    /\ waits' = [waits EXCEPT ![t] = @ + 1]
    /\ pc' = [pc EXCEPT ![t] = "L138"]
    /\ UNCHANGED << entry, prompt_path, prompt, exec_ret, ret, err, signal_callbacks,
                    outgoing_serial, pending, emitted, subs, prompts >>
    /\ UNCHANGED << svars, rvars, cvars >>

\* Lines 138-140, and for unlock_objects lines 151-153.
ExecPromptReturn(t) ==
    /\ pc[t] = "L138"
    /\ IF ~AssertsHold(dismissed[t], result[t])
       THEN /\ Raise(t, AssertionError)
            /\ UNCHANGED << exec_ret, ret >>
       ELSE /\ exec_ret' = [exec_ret EXCEPT ![t] = Some(<<dismissed[t], result[t]>>)]
            /\ IF entry[t] = "exec_prompt"
               THEN /\ pc' = [pc EXCEPT ![t] = "done"]
                    /\ UNCHANGED << ret, err >>
               ELSE IF dismissed[t] = None \/ result[t] = None
               THEN /\ Raise(t, TypeError)
                    /\ UNCHANGED ret
               ELSE IF ~SignatureOk(result[t][1].sig)
               THEN /\ Raise(t, AssertionError)
                    /\ UNCHANGED ret
               ELSE /\ ret' = [ret EXCEPT ![t] =
                                  Some(UnlockReturn(dismissed[t][1], result[t][1]))]
                    /\ pc' = [pc EXCEPT ![t] = "done"]
                    /\ UNCHANGED err
    /\ UNCHANGED << entry, prompt_path, prompt, dismissed, result, signal_callbacks,
                    awaiting_reply, reply, outgoing_serial, pending, inbound,
                    emitted, last, subs, prompts, waits >>
    /\ UNCHANGED << svars, rvars, cvars >>

\* ------------------------------------------------------------ the service
\* The service answers a call it has received.
ServiceReturn(c, handle) ==
    /\ c \in pending
    /\ c.method = "Unlock" \/ handle = ""
    /\ pending' = pending \ { c }
    /\ inbound' = Append(inbound, MethodReturn(c.serial, handle))
    /\ UNCHANGED << pc, entry, prompt_path, prompt, dismissed, result, exec_ret, ret,
                    err, signal_callbacks, awaiting_reply, reply,
                    outgoing_serial, emitted, last, subs, prompts, waits >>
    /\ UNCHANGED << svars, rvars, cvars >>

ServiceError(c, name, data) ==
    /\ c \in pending
    /\ pending' = pending \ { c }
    /\ inbound' = Append(inbound, ErrorReply(c.serial, name, data))
    /\ UNCHANGED << pc, entry, prompt_path, prompt, dismissed, result, exec_ret, ret,
                    err, signal_callbacks, awaiting_reply, reply,
                    outgoing_serial, emitted, last, subs, prompts, waits >>
    /\ UNCHANGED << svars, rvars, cvars >>

\* The service emits Completed for a prompt (of this client or of another:
\* the match rule lets every signal of the Prompt interface through).
EmitCompleted(path, d, r) ==
    /\ emitted < MaxSignals
    /\ emitted' = emitted + 1
    /\ inbound' = Append(inbound, Signal(path, PROMPT_IFACE, "Completed", d, r))
    /\ UNCHANGED << pc, entry, prompt_path, prompt, dismissed, result, exec_ret, ret,
                    err, signal_callbacks, awaiting_reply, reply,
                    outgoing_serial, pending, last, subs, prompts, waits >>
    /\ UNCHANGED << svars, rvars, cvars >>

EmitNoise(m) ==
    /\ emitted < MaxSignals
    /\ emitted' = emitted + 1
    /\ inbound' = Append(inbound, m)
    /\ UNCHANGED << pc, entry, prompt_path, prompt, dismissed, result, exec_ret, ret,
                    err, signal_callbacks, awaiting_reply, reply,
                    outgoing_serial, pending, last, subs, prompts, waits >>
    /\ UNCHANGED << svars, rvars, cvars >>

\* ---------------------------------------------------------------- Session
\* dhcrypto.Session: the Diffie-Hellman group (here a small prime, generator
\* 2), the freshly constructed Session and the key derivation.
DH_PRIME == 257
PrivateKeys == { 3, 8 }

RECURSIVE pow(_, _, _)
pow(base, exp, modulus) ==
    IF exp = 0 THEN 1 % modulus
    ELSE (base * pow(base, exp - 1, modulus)) % modulus

\* int_to_bytes / int_from_bytes(value, 'big'): big-endian, unsigned, no
\* leading zero byte; 0 is the empty byte string.
RECURSIVE int_to_bytes(_)
int_to_bytes(number) ==
    IF number = 0 THEN <<>>
    ELSE Append(int_to_bytes(number \div 256), number % 256)

RECURSIVE int_from_bytes(_)
int_from_bytes(value) ==
    IF value = <<>> THEN 0
    ELSE 256 * int_from_bytes(SubSeq(value, 1, Len(value) - 1)) + value[Len(value)]

\* Session(): nothing negotiated yet, encrypted by default.
NewSession(private_key) ==
    [ object_path |-> None,
      server_public_key |-> None,
      aes_key |-> None,
      encrypted |-> TRUE,
      my_private_key |-> private_key,
      my_public_key |-> pow(2, private_key, DH_PRIME) ]

\* The key derived from the shared secret, as a term.
Hkdf(common_secret) == [hkdf_sha256 |-> common_secret]

\* Session.set_server_public_key
SetServerPublicKey(s, key) ==
    [s EXCEPT
        !.server_public_key = Some(key),
        !.aes_key = Some(Hkdf(pow(key, s.my_private_key, DH_PRIME)))]

\* The state before any open_session: no Session object exists.
NoSession == NewSession(0)

\* The reply to 'OpenSession': (output, result) with output a variant
\* (signature, value), or an error.
SessionReturn(out_sig, out_val, path) ==
    [ type |-> "method_return", error_name |-> "", data |-> NoData,
      out_sig |-> out_sig, out_val |-> out_val, result |-> path ]

SessionError(name, data) ==
    [ type |-> "error", error_name |-> name, data |-> data,
      out_sig |-> "", out_val |-> <<>>, result |-> "" ]

SessionPaths ==
    { "/org/freedesktop/secrets/session/s1",
      "/org/freedesktop/secrets/session/s2" }

ServerKeyBytes == { <<>>, <<2>>, <<1, 0>> }

\* ------------------------------------------------------------ open_session
\* except DBusErrorResponse as resp: if resp.name != DBUS_NOT_SUPPORTED: raise
\* Faulty variant: every transport error triggers the fallback.
FallsBackOnAnyError(exc) == exc.kind = "DBusErrorResponse"
FallsBack(exc) ==
    exc.kind = "DBusErrorResponse" /\ exc.name = DBUS_NOT_SUPPORTED

\* The else branch and line 93 on the Diffie-Hellman path.
\* Faulty variants: the server key is never set; the handle is not recorded.
DHSessionNoKey(s, value, path) == [s EXCEPT !.object_path = Some(path)]
DHSessionNoPath(s, value, path) == SetServerPublicKey(s, int_from_bytes(value))
DHSession(s, value, path) ==
    [SetServerPublicKey(s, int_from_bytes(value)) EXCEPT !.object_path = Some(path)]

\* Lines 87 and 93 on the plain path.
\* Faulty variants: encrypted is left True; the handle is not recorded.
PlainSessionStaysEncrypted(s, path) == [s EXCEPT !.object_path = Some(path)]
PlainSessionNoPath(s, path) == [s EXCEPT !.encrypted = FALSE]
PlainSession(s, path) ==
    [s EXCEPT !.encrypted = FALSE, !.object_path = Some(path)]

\* The assignments to object_path a step from Session old to Session new made.
PathAssignments(old, new) == IF new.object_path # old.object_path THEN 1 ELSE 0

\* Lines 75-80: the Session is made and the Diffie-Hellman call is sent.
OpenSession(private_key) ==
    /\ s_pc = "idle"
    /\ session' = NewSession(private_key)
    /\ s_calls' = << [ algorithm |-> ALGORITHM_DH, signature |-> "ay",
                       payload |-> int_to_bytes(pow(2, private_key, DH_PRIME)) ] >>
    /\ s_pc' = "L78"
    /\ UNCHANGED << s_reply, s_replies, s_ret, s_err, s_path_sets, secret_out,
                    secret_in, s_formats >>
    /\ UNCHANGED << pvars, rvars, cvars >>

\* The service answers the call in flight.
OpenSessionReturn(out_sig, out_val, path) ==
    /\ s_pc \in { "L78", "L84" }
    /\ s_reply = None
    /\ s_reply' = Some(SessionReturn(out_sig, out_val, path))
    /\ UNCHANGED << s_pc, session, s_calls, s_replies, s_ret, s_err,
                    s_path_sets, secret_out, secret_in, s_formats >>
    /\ UNCHANGED << pvars, rvars, cvars >>

OpenSessionError(name, data) ==
    /\ s_pc \in { "L78", "L84" }
    /\ s_reply = None
    /\ s_reply' = Some(SessionError(name, data))
    /\ UNCHANGED << s_pc, session, s_calls, s_replies, s_ret, s_err,
                    s_path_sets, secret_out, secret_in, s_formats >>
    /\ UNCHANGED << pvars, rvars, cvars >>

\* Lines 78-83 and 88-94: the Diffie-Hellman call is over.
DHReplied ==
    /\ s_pc = "L78"
    /\ s_reply # None
    /\ s_replies' = Append(s_replies, s_reply[1])
    /\ s_reply' = None
    /\ LET r == SendAndGetReply(s_reply[1])
       IN  IF ~r.ok
           THEN IF FallsBack(r.exc)
                THEN /\ s_calls' = Append(s_calls,
                            [ algorithm |-> ALGORITHM_PLAIN, signature |-> "s",
                              payload |-> <<>> ])
                     /\ s_pc' = "L84"
                     /\ UNCHANGED << session, s_ret, s_err, s_path_sets >>
                ELSE /\ s_pc' = "raised"
                     /\ s_err' = r.exc
                     /\ UNCHANGED << session, s_calls, s_ret, s_path_sets >>
           ELSE IF ~(r.value.out_sig = "ay")
           THEN /\ s_pc' = "raised"
                /\ s_err' = AssertionError
                /\ UNCHANGED << session, s_calls, s_ret, s_path_sets >>
           ELSE /\ session' = DHSession(session, r.value.out_val, r.value.result)
                /\ s_path_sets' = s_path_sets + PathAssignments(session, session')
                /\ s_ret' = Some(session')
                /\ s_pc' = "done"
                /\ UNCHANGED << s_calls, s_err >>
    /\ UNCHANGED << secret_out, secret_in, s_formats >>
    /\ UNCHANGED << pvars, rvars, cvars >>

\* Lines 84-87 and 93-94: the plain call is over.
PlainReplied ==
    /\ s_pc = "L84"
    /\ s_reply # None
    /\ s_replies' = Append(s_replies, s_reply[1])
    /\ s_reply' = None
    /\ LET r == SendAndGetReply(s_reply[1])
       IN  IF ~r.ok
           THEN /\ s_pc' = "raised"
                /\ s_err' = r.exc
                /\ UNCHANGED << session, s_ret, s_path_sets >>
           ELSE /\ session' = PlainSession(session, r.value.result)
                /\ s_path_sets' = s_path_sets + PathAssignments(session, session')
                /\ s_ret' = Some(session')
                /\ s_pc' = "done"
                /\ UNCHANGED s_err
    /\ UNCHANGED << s_calls, secret_out, secret_in, s_formats >>
    /\ UNCHANGED << pvars, rvars, cvars >>

InitSession ==
    /\ s_pc = "idle"
    /\ session = NoSession
    /\ s_calls = <<>>
    /\ s_reply = None
    /\ s_replies = <<>>
    /\ s_ret = None
    /\ s_err = NoExc
    /\ s_path_sets = 0
    /\ secret_out = None
    /\ secret_in = None
    /\ s_formats = 0

\* ----------------------------------------------------------- format_secret
\* secret.encode('utf-8'), for code points below 0x800.
RECURSIVE Utf8Encode(_)
Utf8Encode(text) ==
    IF text = <<>> THEN <<>>
    ELSE (IF Head(text) < 128
          THEN << Head(text) >>
          ELSE << 192 + (Head(text) \div 64), 128 + (Head(text) % 64) >>)
         \o Utf8Encode(Tail(text))

Repeat(byte, n) == [i \in 1..n |-> byte]

\* padding = 0x10 - (len(secret) & 0xf); secret += bytes((padding,) * padding)
\* Faulty variant: no padding block for a length that is a multiple of 16.
Pkcs7PadNoFullBlock(secret) ==
    secret \o Repeat((16 - (Len(secret) % 16)) % 16, (16 - (Len(secret) % 16)) % 16)
Pkcs7Pad(secret) ==
    secret \o Repeat(16 - (Len(secret) % 16), 16 - (Len(secret) % 16))

\* AES in CBC mode under key and iv, as a term over the padded plaintext.
AesCbcEncrypt(key, iv, padded) ==
    [aes_cbc_key |-> key, aes_cbc_iv |-> iv, plaintext |-> padded]

\* encryptor.update(secret) + encryptor.finalize(): CBC without a padder
\* gives as many bytes as it was given.
CiphertextLen(encrypted_secret) == Len(encrypted_secret.plaintext)

\* Lines 100-101: the bytes format_secret works on.
SecretBytes(secret) ==
    IF secret.is_bytes THEN secret.data ELSE Utf8Encode(secret.data)

\* Faulty variant of line 104: the plain tuple carries the fields in another
\* order (the secret where the initialization vector belongs).
format_secret_swapped(s, secret, content_type, iv) ==
    LET bytes == IF secret.is_bytes THEN secret.data ELSE Utf8Encode(secret.data)
    IN  IF s.object_path = None
        THEN [raised |-> "AssertionError"]
        ELSE IF ~s.encrypted
        THEN [raised |-> "", object_path |-> s.object_path[1], aes_iv |-> bytes,
              value |-> <<>>, content_type |-> content_type]
        ELSE [raised |-> "", object_path |-> s.object_path[1], aes_iv |-> iv,
              value |-> AesCbcEncrypt(s.aes_key, iv, Pkcs7Pad(bytes)),
              content_type |-> content_type]

\* Faulty variant of lines 108-114: the initialization vector returned is not
\* the one the cipher was set up with.
format_secret_other_iv(s, secret, content_type, iv) ==
    LET bytes == IF secret.is_bytes THEN secret.data ELSE Utf8Encode(secret.data)
    IN  IF s.object_path = None
        THEN [raised |-> "AssertionError"]
        ELSE IF ~s.encrypted
        THEN [raised |-> "", object_path |-> s.object_path[1], aes_iv |-> <<>>,
              value |-> bytes, content_type |-> content_type]
        ELSE [raised |-> "", object_path |-> s.object_path[1], aes_iv |-> iv,
              value |-> AesCbcEncrypt(s.aes_key, Repeat(7, 16), Pkcs7Pad(bytes)),
              content_type |-> content_type]

\* format_secret(session, secret, content_type) with os.urandom(0x10) = iv.
\* secret.is_bytes tells bytes from str; a str is encoded first.
format_secret(s, secret, content_type, iv) ==
    LET bytes == IF secret.is_bytes THEN secret.data ELSE Utf8Encode(secret.data)
    IN  IF s.object_path = None
        THEN [raised |-> "AssertionError"]
        ELSE IF ~s.encrypted
        THEN [raised |-> "", object_path |-> s.object_path[1], aes_iv |-> <<>>,
              value |-> bytes, content_type |-> content_type]
        ELSE [raised |-> "", object_path |-> s.object_path[1], aes_iv |-> iv,
              value |-> AesCbcEncrypt(s.aes_key, iv, Pkcs7Pad(bytes)),
              content_type |-> content_type]

\* Byte strings of every length up to MaxSecretLen and of 31, 32 and 33
\* bytes, b'hunter2', byte strings that end in bytes looking like padding
\* (b'\x01', fifteen bytes and b'\x10', sixteen b'\x10'), and the str
\* 'p\xe9' (not bytes).
Secrets ==
    { [is_bytes |-> TRUE, data |-> Repeat(65, n)] :
          n \in (0..MaxSecretLen) \cup { 31, 32, 33 } }
    \cup
    { [is_bytes |-> TRUE, data |-> <<104, 117, 110, 116, 101, 114, 50>>],
      [is_bytes |-> TRUE, data |-> <<1>>],
      [is_bytes |-> TRUE, data |-> Repeat(65, 15) \o <<16>>],
      [is_bytes |-> TRUE, data |-> Repeat(16, 16)],
      [is_bytes |-> FALSE, data |-> <<112, 233>>] }

ContentTypes == { "text/plain", "application/octet-stream" }

\* Values of os.urandom(0x10).
RandomIVs == { Repeat(0, 16), Repeat(255, 16) }

\* A caller formats a secret under the Session open_session returned.
FormatSecret(secret, content_type, iv) ==
    /\ s_pc = "done"
    /\ s_formats < MaxFormats
    /\ s_formats' = s_formats + 1
    /\ secret_in' = Some([ secret |-> secret, content_type |-> content_type,
                           aes_iv |-> iv ])
    /\ secret_out' = Some(format_secret(session, secret, content_type, iv))
    /\ UNCHANGED << s_pc, session, s_calls, s_reply, s_replies, s_ret, s_err,
                    s_path_sets >>
    /\ UNCHANGED << pvars, rvars, cvars >>

\* ------------------------------------------------------------------ decode
\* The mirror operation of the service and of the readers of a secret: AES-CBC
\* decryption under the supplied key and initialization vector gives the
\* bytes that were encrypted when both are the ones used to encrypt, and
\* unrelated bytes otherwise.
Garbage == << 222, 173 >>

AesCbcDecrypt(key, iv, encrypted_secret) ==
    IF encrypted_secret.aes_cbc_key = key /\ encrypted_secret.aes_cbc_iv = iv
    THEN encrypted_secret.plaintext
    ELSE Garbage

\* Stripping the padding: the last byte k names the pad length; the padding
\* is valid when 1 <= k <= 16, k <= length and the last k bytes all equal k.
Pkcs7Valid(padded) ==
    /\ Len(padded) > 0
    /\ Len(padded) % 16 = 0
    /\ padded[Len(padded)] \in 1..16
    /\ \A i \in (Len(padded) - padded[Len(padded)] + 1)..Len(padded) :
           padded[i] = padded[Len(padded)]

Pkcs7Unpad(padded) == SubSeq(padded, 1, Len(padded) - padded[Len(padded)])

\* decode(session, secret): the plaintext, or a decoding error.
decode(s, secret) ==
    IF ~s.encrypted
    THEN [error |-> "", plaintext |-> secret.value]
    ELSE LET padded == AesCbcDecrypt(s.aes_key, secret.aes_iv, secret.value)
         IN  IF Pkcs7Valid(padded)
             THEN [error |-> "", plaintext |-> Pkcs7Unpad(padded)]
             ELSE [error |-> "DecodingError", plaintext |-> <<>>]

\* ---------------------------------------- DBusAddressWrapper's three methods
\* A reply body: the values of a method return.  Properties.Get returns one
\* variant (signature, value).
RpcReturnMsg(body) ==
    [type |-> "method_return", error_name |-> "", data |-> NoData, body |-> body]

RpcErrorMsg(name, data) ==
    [type |-> "error", error_name |-> name, data |-> data, body |-> <<>>]

Variants == { <<"s", "Login">>, <<"b", "true">> }
Bodies == { <<>> } \cup { <<v>> : v \in Variants }
          \cup { <<v, w>> : v \in { <<"s", "Login">> }, w \in Variants }

ValueError == Exc("ValueError", "", "", NoData)
NoOut == [is_none |-> TRUE, value |-> <<>>]

\* call / get_property / set_property send their message.
RpcSend(method) ==
    /\ r_pc = "idle"
    /\ r_method' = method
    /\ r_pc' = "sent"
    /\ UNCHANGED << r_reply, r_raw, r_out, r_err >>
    /\ UNCHANGED << pvars, svars, cvars >>

\* self._connection.send_and_get_reply(msg) gives a reply or raises
\* DBusErrorResponse.
RpcReturn(body) ==
    /\ r_pc = "sent"
    /\ r_reply = None
    /\ r_reply' = Some(RpcReturnMsg(body))
    /\ UNCHANGED << r_pc, r_method, r_raw, r_out, r_err >>
    /\ UNCHANGED << pvars, svars, cvars >>

RpcError(name, data) ==
    /\ r_pc = "sent"
    /\ r_reply = None
    /\ r_reply' = Some(RpcErrorMsg(name, data))
    /\ UNCHANGED << r_pc, r_method, r_raw, r_out, r_err >>
    /\ UNCHANGED << pvars, svars, cvars >>

\* Lines 59-70: the wrapper's send_and_get_reply returns or raises, and the
\* method makes its result of it: call the reply, get_property the value of
\* "(signature, value), = reply", set_property nothing.
RpcReplied ==
    /\ r_pc = "sent"
    /\ r_reply # None
    /\ r_raw' = r_reply
    /\ r_reply' = None
    /\ LET r == SendAndGetReply(r_reply[1])
       IN  IF ~r.ok
           THEN /\ r_pc' = "raised"
                /\ r_err' = r.exc
                /\ UNCHANGED r_out
           ELSE IF r_method = "call"
           THEN /\ r_pc' = "returned"
                /\ r_out' = [is_none |-> FALSE, value |-> r.value.body]
                /\ UNCHANGED r_err
           ELSE IF r_method = "set_property"
           THEN /\ r_pc' = "returned"
                /\ r_out' = NoOut
                /\ UNCHANGED r_err
           ELSE IF Len(r.value.body) # 1
           THEN /\ r_pc' = "raised"
                /\ r_err' = ValueError
                /\ UNCHANGED r_out
           ELSE /\ r_pc' = "returned"
                /\ r_out' = [is_none |-> FALSE, value |-> << r.value.body[1][2] >>]
                /\ UNCHANGED r_err
    /\ UNCHANGED r_method
    /\ UNCHANGED << pvars, svars, cvars >>

InitRpc ==
    /\ r_pc = "idle"
    /\ r_method = ""
    /\ r_reply = None
    /\ r_raw = None
    /\ r_out = NoOut
    /\ r_err = NoExc

\* ------------------------- dbus_init, add_match_rules, the context managers
\* The three ways a caller gets a connection and puts it in a with statement:
\*   with secretstorage.util.dbus_init() as conn    (the closing wrapper)
\*   with secretstorage.create_connection() as conn
\*   with secretstorage.dbus_init() as connection   (jeepney's own object)
Uses == { "util.dbus_init", "create_connection", "secretstorage.dbus_init" }

\* rule = MatchRule(sender=BUS_NAME, interface=PROMPT_IFACE)
\* Faulty variant: the rule names no sender.
MatchRuleAnySender == [sender |-> "", interface |-> PROMPT_IFACE]
MatchRule == [sender |-> BUS_NAME, interface |-> PROMPT_IFACE]

\* dbus.call('AddMatch', 's', rule.serialise()) on the bus daemon's object.
AddMatchCall ==
    [ destination |-> "org.freedesktop.DBus", path |-> "/org/freedesktop/DBus",
      interface |-> "org.freedesktop.DBus", member |-> "AddMatch",
      rule |-> MatchRule ]

\* What connect_and_authenticate raises when there is no bus to talk to.
ConnectErrors ==
    { Exc("KeyError", "", "DBUS_SESSION_BUS_ADDRESS", NoData),
      Exc("ConnectionError", "", "Connection refused", NoData),
      Exc("ValueError", "", "Unknown address type", NoData) }

\* The except clauses of dbus_init: what leaves it when exc was raised inside
\* its try block.
DbusInitExcept(exc) ==
    IF exc.kind = "KeyError"
    THEN Exc("SecretServiceNotAvailableException", "",
             "Environment variable " \o exc.msg \o " is unset", NoData)
    ELSE IF exc.kind \in { "ConnectionError", "ValueError" }
    THEN Exc("SecretServiceNotAvailableException", "", exc.msg, NoData)
    ELSE exc

\* What dbus_init returns: util.dbus_init the ClosingDBusConnectionWrapper,
\* secretstorage.dbus_init (also behind create_connection) the connection.
Returned(use) == [wrapper |-> use = "util.dbus_init"]

\* socket.close()
SockClose(sock) == "closed"

\* ClosingDBusConnectionWrapper.close, called by its __exit__.
\* Faulty variant: the socket is left alone.
WrapperCloseNothing(sock) == sock
WrapperClose(sock) == SockClose(sock)

\* create_connection.__exit__: self.connection.sock.close()
CreateConnectionExit(sock) == SockClose(sock)

\* Both __exit__ methods return None: the exception of the body is not
\* suppressed and leaves the with statement.
ExitSuppresses == FALSE
Propagated(exc) == IF ExitSuppresses THEN NoExc ELSE exc

\* What the body of a with statement may raise.
BodyErrors ==
    { Exc("RuntimeError", "", "body failed", NoData),
      Exc("ItemNotFoundException", "", "Item does not exist!", NoData) }

OSError == Exc("OSError", "", "Bad file descriptor", NoData)
AttributeError == Exc("AttributeError", "", "__enter__", NoData)

\* An RPC on the connection (through the wrapper's __getattribute__, which
\* hands every name but '_wrapped_connection' and 'close' to the wrapped
\* connection): sending on a closed socket raises OSError, on an open one
\* the service answers or refuses.
RpcOutcomes(sock) ==
    IF sock = "open" THEN { "returned", "DBusErrorResponse" } ELSE { "OSError" }

\* dbus_init is called, directly or by create_connection.__enter__.
DbusInit(use) ==
    /\ c_pc = "idle"
    /\ c_use' = use
    /\ c_pc' = "L199"
    /\ UNCHANGED << c_sock, c_connection, c_calls, c_reply, c_raw, c_rules, c_err,
                    c_body_exc, c_rpcs >>
    /\ UNCHANGED << pvars, svars, rvars >>

\* connect_and_authenticate() raises: dbus_init raises what its except
\* clauses make of it, and there is no connection.
ConnectFails(exc) ==
    /\ c_pc = "L199"
    /\ c_pc' = "raised"
    /\ c_err' = DbusInitExcept(exc)
    /\ UNCHANGED << c_use, c_sock, c_connection, c_calls, c_reply, c_raw, c_rules,
                    c_body_exc, c_rpcs >>
    /\ UNCHANGED << pvars, svars, rvars >>

\* connect_and_authenticate() returns a connection; add_match_rules sends
\* 'AddMatch' and waits for the reply.
ConnectAndAddMatch ==
    /\ c_pc = "L199"
    /\ c_sock' = "open"
    /\ c_calls' = Append(c_calls, AddMatchCall)
    /\ c_pc' = "L171"
    /\ UNCHANGED << c_use, c_connection, c_reply, c_raw, c_rules, c_err,
                    c_body_exc, c_rpcs >>
    /\ UNCHANGED << pvars, svars, rvars >>

\* The bus daemon installs the rule and answers.
BusReturn ==
    /\ c_pc = "L171"
    /\ c_reply = None
    /\ c_rules' = Append(c_rules, c_calls[Len(c_calls)].rule)
    /\ c_reply' = Some(RpcReturnMsg(<<>>))
    /\ UNCHANGED << c_pc, c_use, c_sock, c_connection, c_calls, c_raw, c_err,
                    c_body_exc, c_rpcs >>
    /\ UNCHANGED << pvars, svars, rvars >>

\* The bus daemon refuses the rule, or no answer comes.
BusError(name, data) ==
    /\ c_pc = "L171"
    /\ c_reply = None
    /\ c_reply' = Some(RpcErrorMsg(name, data))
    /\ UNCHANGED << c_pc, c_use, c_sock, c_connection, c_calls, c_raw, c_rules,
                    c_err, c_body_exc, c_rpcs >>
    /\ UNCHANGED << pvars, svars, rvars >>

\* add_match_rules is over: dbus_init returns the connection, or the failure
\* of 'AddMatch' leaves it.
AddMatchReplied ==
    /\ c_pc = "L171"
    /\ c_reply # None
    /\ c_raw' = c_reply
    /\ c_reply' = None
    /\ LET r == SendAndGetReply(c_reply[1])
       IN  IF ~r.ok
           THEN /\ c_pc' = "raised"
                /\ c_err' = DbusInitExcept(r.exc)
                /\ UNCHANGED c_connection
           ELSE /\ c_pc' = "returned"
                /\ c_connection' = Some(Returned(c_use))
                /\ UNCHANGED c_err
    /\ UNCHANGED << c_use, c_sock, c_calls, c_rules, c_body_exc, c_rpcs >>
    /\ UNCHANGED << pvars, svars, rvars >>

\* The with statement is entered on the object as dbus_init returned it.
\* It looks __enter__ and __exit__ up and enters the body.
\* The wrapper and create_connection define both; whether jeepney's own
\* connection object does depends on the jeepney installed (native).
WithEnter(native) ==
    /\ c_pc = "returned"
    /\ c_rpcs = <<>>
    /\ IF c_use = "secretstorage.dbus_init" /\ ~native
       THEN /\ c_pc' = "raised"
            /\ c_err' = AttributeError
       ELSE /\ c_pc' = "body"
            /\ UNCHANGED c_err
    /\ UNCHANGED << c_use, c_sock, c_connection, c_calls, c_reply, c_raw, c_rules,
                    c_body_exc, c_rpcs >>
    /\ UNCHANGED << pvars, svars, rvars >>

\* __exit__ of the context manager in use, run on the socket.
Exit(use, sock) ==
    IF use = "util.dbus_init" THEN WrapperClose(sock)
    ELSE IF use = "create_connection" THEN CreateConnectionExit(sock)
    ELSE SockClose(sock)

\* The body ends normally: __exit__(None, None, None).
BodyEnds ==
    /\ c_pc = "body"
    /\ c_sock' = Exit(c_use, c_sock)
    /\ c_pc' = "exited"
    /\ UNCHANGED << c_use, c_connection, c_calls, c_reply, c_raw, c_rules, c_err,
                    c_body_exc, c_rpcs >>
    /\ UNCHANGED << pvars, svars, rvars >>

\* The body raises: __exit__(type, value, traceback), then the exception
\* leaves the with statement unless __exit__ returned a true value.
BodyRaises(exc) ==
    /\ c_pc = "body"
    /\ c_body_exc' = exc
    /\ c_sock' = Exit(c_use, c_sock)
    /\ c_err' = Propagated(exc)
    /\ c_pc' = "exited"
    /\ UNCHANGED << c_use, c_connection, c_calls, c_reply, c_raw, c_rules, c_rpcs >>
    /\ UNCHANGED << pvars, svars, rvars >>

\* The caller attempts something on the connection it holds: an RPC, or a
\* prompt flow (exec_prompt / unlock_objects), whose first step is an RPC.
Attempt(kind, outcome) ==
    /\ c_pc \in { "returned", "body", "exited" }
    /\ c_connection # None
    /\ Len(c_rpcs) < MaxRpcs
    /\ outcome \in RpcOutcomes(c_sock)
    /\ c_rpcs' = Append(c_rpcs, [ phase |-> c_pc, kind |-> kind,
                                  outcome |-> outcome,
                                  rules |-> c_rules ])
    /\ UNCHANGED << c_pc, c_use, c_sock, c_connection, c_calls, c_reply, c_raw,
                    c_rules, c_err, c_body_exc >>
    /\ UNCHANGED << pvars, svars, rvars >>

InitConnection ==
    /\ c_pc = "idle"
    /\ c_use = ""
    /\ c_sock = "none"
    /\ c_connection = None
    /\ c_calls = <<>>
    /\ c_reply = None
    /\ c_raw = None
    /\ c_rules = <<>>
    /\ c_err = NoExc
    /\ c_body_exc = NoExc
    /\ c_rpcs = <<>>

\* ---------------------------------------------------------- specifications
InitPrompt ==
    /\ pc = [t \in Threads |-> "idle"]
    /\ entry = [t \in Threads |-> ""]
    /\ prompt_path = [t \in Threads |-> ""]
    /\ prompt = [t \in Threads |-> None]
    /\ dismissed = [t \in Threads |-> None]
    /\ result = [t \in Threads |-> None]
    /\ exec_ret = [t \in Threads |-> None]
    /\ ret = [t \in Threads |-> None]
    /\ err = [t \in Threads |-> NoExc]
    /\ signal_callbacks = {}
    /\ awaiting_reply = {}
    /\ reply = [t \in Threads |-> None]
    /\ outgoing_serial = 1
    /\ pending = {}
    /\ inbound = <<>>
    /\ emitted = 0
    /\ last = [t \in Threads |-> None]
    /\ subs = [t \in Threads |-> 0]
    /\ prompts = [t \in Threads |-> 0]
    /\ waits = [t \in Threads |-> 0]

Init == InitPrompt /\ InitSession /\ InitRpc /\ InitConnection

\* One caller, one invocation: unlock_objects, or exec_prompt on PathA; the
\* service answers as it likes and emits Completed for PathA, Completed for
\* another client's prompt (PathB) and unrelated traffic.
NextPrompt ==
    \/ UnlockObjects(1)
    \/ ExecPrompt(1, PathA)
    \/ Subscribe(1)
    \/ PromptCall(1)
    \/ CallEnterRecv(1)
    \/ \E k \in 1..MaxBatch : CallRecv(1, k)
    \/ UnlockReplied(1)
    \/ PromptReplied(1)
    \/ \E k \in 1..MaxBatch : WaitRecv(1, k)
    \/ ExecPromptReturn(1)
    \/ \E c \in pending, handle \in { "", "/", PathA } : ServiceReturn(c, handle)
    \/ \E c \in pending, e \in PromptErrors : ServiceError(c, e[1], e[2])
    \/ \E d \in { 0, 1 }, r \in Results : EmitCompleted(PathA, d, r)
    \/ EmitCompleted(PathB, 1, OtherResult)
    \/ \E m \in NoiseMessages : EmitNoise(m)

SpecPrompt == Init /\ [][NextPrompt]_vars

\* Two callers run exec_prompt on the same connection from two threads, on
\* the same or on different prompt paths.
NextThreads ==
    \/ \E t \in Threads, path \in PromptPaths : ExecPrompt(t, path)
    \/ \E t \in Threads : Subscribe(t)
    \/ \E t \in Threads : PromptCall(t)
    \/ \E t \in Threads : CallEnterRecv(t)
    \/ \E t \in Threads, k \in 1..MaxBatch : CallRecv(t, k)
    \/ \E t \in Threads : PromptReplied(t)
    \/ \E t \in Threads, k \in 1..MaxBatch : WaitRecv(t, k)
    \/ \E t \in Threads : ExecPromptReturn(t)
    \/ \E c \in pending : ServiceReturn(c, "")
    \/ \E path \in PromptPaths : EmitCompleted(path, 1, OtherResult)

SpecThreads == Init /\ [][NextThreads]_vars


\* open_session against a service that answers each 'OpenSession' call as it
\* likes; the returned Session is then used to format secrets.
NextSession ==
    \/ \E private_key \in PrivateKeys : OpenSession(private_key)
    \/ \E out_sig \in { "ay", "s" }, out_val \in ServerKeyBytes, path \in SessionPaths :
           OpenSessionReturn(out_sig, out_val, path)
    \/ \E name \in ErrorNames, data \in Payloads : OpenSessionError(name, data)
    \/ DHReplied
    \/ PlainReplied
    \/ \E secret \in Secrets, content_type \in ContentTypes, iv \in RandomIVs :
           FormatSecret(secret, content_type, iv)

SpecSession == Init /\ [][NextSession]_vars

\* One RPC through each of the wrapper's methods, for every reply and every
\* error the connection can give.
NextRpc ==
    \/ \E method \in { "call", "get_property", "set_property" } : RpcSend(method)
    \/ \E body \in Bodies : RpcReturn(body)
    \/ \E name \in ErrorNames, data \in Payloads : RpcError(name, data)
    \/ RpcReplied

SpecRpc == Init /\ [][NextRpc]_vars

\* One connection from dbus_init to after its with statement, against a bus
\* that may be absent and a bus daemon that answers 'AddMatch' as it likes.
NextConnection ==
    \/ \E use \in Uses : DbusInit(use)
    \/ \E exc \in ConnectErrors : ConnectFails(exc)
    \/ ConnectAndAddMatch
    \/ BusReturn
    \/ \E name \in ErrorNames, data \in Payloads : BusError(name, data)
    \/ AddMatchReplied
    \/ \E native \in BOOLEAN : WithEnter(native)
    \/ BodyEnds
    \/ \E exc \in BodyErrors : BodyRaises(exc)
    \/ \E kind \in { "rpc", "prompt flow" }, outcome \in { "returned", "DBusErrorResponse", "OSError" } :
           Attempt(kind, outcome)

SpecConnection == Init /\ [][NextConnection]_vars

\* ================================================================ claims
\* What a finished exec_prompt of thread t is: it returned, or (the 'Prompt'
\* call having succeeded) one of its assertions failed.
ExecPromptOver(t) ==
    \/ exec_ret[t] # None
    \/ pc[t] = "raised" /\ err[t].kind = "AssertionError"

OwnSignalObserved(t) ==
    /\ last[t] # None
    /\ last[t][1].path = prompt_path[t]
    /\ last[t][1].interface = PROMPT_IFACE
    /\ last[t][1].member = "Completed"

\* C1: once the 'Prompt' call has returned, exec_prompt neither returns nor
\* raises before the Completed signal for its own prompt_path has been
\* observed, whatever else arrives on the connection.
C1_BlocksUntilOwnSignal ==
    \A t \in Threads : ExecPromptOver(t) => OwnSignalObserved(t)

\* C2: with two prompt flows on one connection, the outcome of an invocation
\* is only ever set from a Completed signal for the path that invocation
\* subscribed for; a signal for path A never sets the outcome of the
\* invocation for path B.
C2_OutcomeOnlyFromOwnPath ==
    \A t \in Threads :
        (dismissed[t] # None \/ result[t] # None \/ last[t] # None)
            => OwnSignalObserved(t)

\* C2 witness: two invocations on distinct paths are subscribed, a Completed
\* signal for the first one's path has been dispatched to it and the other
\* one is still waiting with no outcome.
C2_Witness ==
    \E t, u \in Threads :
        /\ prompt_path[t] = PathA /\ prompt_path[u] = PathB
        /\ subs[t] = 1 /\ subs[u] = 1
        /\ last[t] # None /\ last[t][1].path = PathA
        /\ dismissed[u] = None /\ result[u] = None
        /\ pc[u] \in { "L135", "L135_wait", "L135_recv", "L137" }

\* C3: whenever exec_prompt returns, it returns the payload of a Completed
\* signal delivered for prompt_path on the Prompt interface after the
\* subscription, dismissed as a boolean; never the unset initial values.
C3_ReturnsDeliveredPayload ==
    \A t \in Threads :
        exec_ret[t] # None =>
            /\ OwnSignalObserved(t)
            /\ exec_ret[t][1][2] = Some(last[t][1].result)
            /\ \/ last[t][1].dismissed = 1 /\ exec_ret[t][1][1] = Some(TRUE)
               \/ last[t][1].dismissed = 0 /\ exec_ret[t][1][1] = Some(FALSE)

\* C3 witness: exec_prompt has returned (dismissed = True) after its own
\* recv_messages call delivered the signal.
C3_Witness ==
    \E t \in Threads :
        /\ exec_ret[t] # None
        /\ waits[t] = 1
        /\ exec_ret[t][1][1] = Some(TRUE)

\* C4: when the 'Unlock' reply carries the root path or an empty path as its
\* prompt handle, unlock_objects returns False at once: nothing is
\* subscribed, no 'Prompt' call is sent, recv_messages is not called.
C4_NoPromptReturnsFalse ==
    \A t \in Threads :
        (prompt[t] # None /\ prompt[t][1] \in { "", "/" }) =>
            /\ pc[t] = "done"
            /\ ret[t] = Some(FALSE)
            /\ subs[t] = 0 /\ prompts[t] = 0 /\ waits[t] = 0
            /\ \A e \in signal_callbacks : e[2] # t

\* C4 witness: 'Unlock' answered with the root path and unlock_objects is
\* back.
C4_Witness ==
    \E t \in Threads : prompt[t] = Some("/") /\ pc[t] = "done"

\* C5: when the 'Unlock' reply carries a real prompt handle, unlock_objects
\* runs exec_prompt once and, whatever result the Completed signal carried,
\* returns the dismissed flag of exec_prompt's outcome.
C5_ReturnsDismissedForAnyResult ==
    \A t \in Threads :
        (entry[t] = "unlock_objects" /\ exec_ret[t] # None) =>
            /\ pc[t] = "done"
            /\ ret[t] = exec_ret[t][1][1]
            /\ subs[t] = 1 /\ prompts[t] = 1

\* C10: the only failures that leave unlock_objects and exec_prompt are
\* ItemNotFound, ServiceUnavailable and the untranslated transport error.
C10_OnlyPolicyFailures ==
    \A t \in Threads : pc[t] = "raised" => err[t].kind \in PolicyKinds

\* C6: when the service rejects the Diffie-Hellman 'OpenSession' with the
\* 'not supported' error and accepts the plain one, open_session raises
\* nothing and returns a Session with encrypted = False, no key derived, and
\* the handle of the plain reply; the plain call carried an empty payload.
C6_FallbackToPlain ==
    ( /\ Len(s_replies) = 2
      /\ s_replies[1].type = "error"
      /\ s_replies[1].error_name = DBUS_NOT_SUPPORTED
      /\ s_replies[2].type = "method_return" )
    => /\ s_pc = "done"
       /\ s_err = NoExc
       /\ s_ret # None
       /\ s_ret[1].encrypted = FALSE
       /\ s_ret[1].aes_key = None
       /\ s_ret[1].server_public_key = None
       /\ s_ret[1].object_path = Some(s_replies[2].result)
       /\ Len(s_calls) = 2
       /\ s_calls[2] = [ algorithm |-> ALGORITHM_PLAIN, signature |-> "s",
                         payload |-> <<>> ]

\* C6 witness: the Diffie-Hellman call was rejected as not supported, the
\* plain call was accepted and open_session is back.
C6_Witness ==
    /\ s_pc = "done"
    /\ Len(s_replies) = 2
    /\ s_replies[1].error_name = DBUS_NOT_SUPPORTED
    /\ s_replies[2].type = "method_return"

C8_HandleSetOnce ==
    /\ s_ret # None =>
          /\ s_path_sets = 1
          /\ s_replies # <<>>
          /\ s_replies[Len(s_replies)].type = "method_return"
          /\ s_ret[1].object_path = Some(s_replies[Len(s_replies)].result)
          /\ session = s_ret[1]
    /\ s_ret = None => (s_path_sets = 0 /\ session.object_path = None)
    /\ s_pc = "raised" => s_ret = None

\* C8 witness: the fallback path returned a Session and format_secret has
\* been called with it.
C8_Witness ==
    /\ s_ret # None
    /\ Len(s_replies) = 2
    /\ secret_out # None

\* C9: every failed RPC is classified by its error name: unknown method / no
\* such object as ItemNotFoundException; service unknown / exec failed / no
\* reply as SecretServiceNotAvailableException with the payload's first
\* element (payload a tuple) or the payload (otherwise) as message; any other
\* name leaves as the same transport error.  A reply is returned unchanged.
C9_ErrorClassification ==
    (r_pc \in { "returned", "raised" } /\ r_raw # None) =>
        LET raw == r_raw[1]
        IN  /\ (raw.type = "error" /\
                raw.error_name \in { DBUS_UNKNOWN_METHOD, DBUS_NO_SUCH_OBJECT })
               => (r_pc = "raised" /\ r_err.kind = "ItemNotFoundException")
            /\ (raw.type = "error" /\
                raw.error_name \in { DBUS_SERVICE_UNKNOWN, DBUS_EXEC_FAILED,
                                     DBUS_NO_REPLY })
               => /\ r_pc = "raised"
                  /\ r_err.kind = "SecretServiceNotAvailableException"
                  /\ r_err.msg = raw.data.elems[1]
            /\ (raw.type = "error" /\
                raw.error_name \in { DBUS_NOT_SUPPORTED, DBUS_ACCESS_DENIED })
               => /\ r_pc = "raised"
                  /\ r_err.kind = "DBusErrorResponse"
                  /\ r_err.name = raw.error_name
                  /\ r_err.data = raw.data
            /\ (raw.type = "method_return" /\ r_method = "call")
               => (r_pc = "returned" /\ r_out = [is_none |-> FALSE, value |-> raw.body])

\* The call format_secret was last made with, and what it gave.
FormatCalled == s_pc = "done" /\ secret_in # None /\ secret_out # None

\* C11: under an encrypted Session, for a plaintext of n bytes format_secret
\* appends k = 16 - (n mod 16) bytes of value k, 1 <= k <= 16; the ciphertext
\* has n + k bytes, a multiple of 16 above n, and n + 16 bytes when n is a
\* multiple of 16 (n = 0 included); the initialization vector has 16 bytes.
C11_PaddingLengths ==
    (FormatCalled /\ session.encrypted) =>
        LET p == SecretBytes(secret_in[1].secret)
            n == Len(p)
            out == secret_out[1]
        IN  /\ out.raised = ""
            /\ LET padded == out.value.plaintext
                   k == Len(padded) - n
               IN  /\ k = 16 - (n % 16)
                   /\ k >= 1 /\ k <= 16
                   /\ SubSeq(padded, 1, n) = p
                   /\ \A i \in (n + 1)..Len(padded) : padded[i] = k
                   /\ CiphertextLen(out.value) = n + k
                   /\ (n + k) % 16 = 0
                   /\ n + k > n
                   /\ (n % 16 = 0) => (CiphertextLen(out.value) = n + 16)
            /\ Len(out.aes_iv) = 16

\* C11 witness: a plaintext of exactly 16 bytes was formatted under an
\* encrypted Session and the ciphertext has 32 bytes.
C11_Witness ==
    /\ FormatCalled
    /\ session.encrypted
    /\ Len(SecretBytes(secret_in[1].secret)) = 16
    /\ CiphertextLen(secret_out[1].value) = 32

\* C12: under an unencrypted Session format_secret returns (session handle,
\* empty initialization vector, the plaintext as it is, the content type),
\* each in its field, and decoding that tuple gives the plaintext back.
C12_PlainRoundTrip ==
    (FormatCalled /\ ~session.encrypted) =>
        /\ secret_out[1] =
              [ raised |-> "",
                object_path |-> session.object_path[1],
                aes_iv |-> <<>>,
                value |-> SecretBytes(secret_in[1].secret),
                content_type |-> secret_in[1].content_type ]
        /\ decode(session, secret_out[1]) =
              [ error |-> "", plaintext |-> SecretBytes(secret_in[1].secret) ]

\* C12 witness: b'hunter2' was formatted under a Session negotiated by the
\* plain fallback.
C12_Witness ==
    /\ FormatCalled
    /\ ~session.encrypted
    /\ secret_in[1].secret.data = <<104, 117, 110, 116, 101, 114, 50>>
    /\ secret_in[1].content_type = "application/octet-stream"

\* C13: under a negotiated encrypted Session, decrypting the tuple of
\* format_secret with the Session's key and the tuple's initialization vector
\* and stripping the padding gives exactly the plaintext that was formatted,
\* the empty one and those of a multiple of 16 bytes included.
C13_EncryptedRoundTrip ==
    (FormatCalled /\ session.encrypted) =>
        /\ secret_out[1].raised = ""
        /\ decode(session, secret_out[1]) =
              [ error |-> "", plaintext |-> SecretBytes(secret_in[1].secret) ]

\* C13 witness: sixteen bytes of value 16, which look like a padding block,
\* were formatted under an encrypted Session.
C13_Witness ==
    /\ FormatCalled
    /\ session.encrypted
    /\ secret_in[1].secret.data = Repeat(16, 16)
    /\ secret_out[1].raised = ""

\* C19: every Session open_session has returned, by Diffie-Hellman or by the
\* plain fallback, has its object_path set, so the assertion of format_secret
\* holds at each of its calls; and the Session is after any number of
\* format_secret calls still the one open_session returned.
C19_FormatPreconditionHolds ==
    s_ret # None =>
        /\ s_ret[1].object_path # None
        /\ session.object_path # None
        /\ session = s_ret[1]
        /\ secret_out # None => secret_out[1].raised = ""

\* C19 witness: format_secret has been called twice with a Session of the
\* Diffie-Hellman path.
C19_Witness ==
    /\ s_ret # None
    /\ s_ret[1].encrypted
    /\ s_formats = 2
    /\ secret_out # None

\* The first 'OpenSession' request has been answered with an error.
FirstRequestFailed == Len(s_replies) >= 1 /\ s_replies[1].type = "error"

\* C17: the plain 'OpenSession' request is sent only after the
\* Diffie-Hellman one failed with the 'not supported' name; any other failure
\* of the first request, translated or not, leaves open_session with no
\* second request; a failure of the plain request leaves it too; so one
\* open_session sends at most two requests, and one when the first succeeds.
C17_FallbackOnlyOnNotSupported ==
    /\ Len(s_calls) <= 2
    /\ Len(s_replies) <= Len(s_calls)
    /\ Len(s_calls) = 2 =>
          /\ FirstRequestFailed
          /\ s_replies[1].error_name = DBUS_NOT_SUPPORTED
          /\ s_calls[1].algorithm = ALGORITHM_DH
          /\ s_calls[2].algorithm = ALGORITHM_PLAIN
    /\ (FirstRequestFailed /\ s_replies[1].error_name # DBUS_NOT_SUPPORTED) =>
          /\ Len(s_calls) = 1
          /\ s_pc = "raised"
          /\ s_ret = None
          /\ s_err = TranslateError(s_replies[1].error_name, s_replies[1].data)
    /\ (Len(s_replies) >= 1 /\ s_replies[1].type = "method_return") =>
          /\ Len(s_calls) = 1
          /\ s_pc \in { "done", "raised" }
    /\ (Len(s_replies) = 2 /\ s_replies[2].type = "error") =>
          /\ s_pc = "raised"
          /\ s_ret = None
          /\ s_err = TranslateError(s_replies[2].error_name, s_replies[2].data)

\* C17 witness: the Diffie-Hellman request failed with a name the wrapper
\* does not translate and that is not 'not supported'; open_session raised
\* after one request.
C17_Witness ==
    /\ s_pc = "raised"
    /\ FirstRequestFailed
    /\ s_replies[1].error_name = DBUS_ACCESS_DENIED
    /\ Len(s_calls) = 1
    /\ s_err.kind = "DBusErrorResponse"

\* The outcome carried by the signal thread t's callback last ran on.
SignalOutcome(t) ==
    << Some(Bool(last[t][1].dismissed)), Some(last[t][1].result) >>

\* C16: the callback is subscribed before 'Prompt' is sent, so a Completed
\* signal for prompt_path that is dispatched while exec_prompt waits for the
\* reply to 'Prompt' is kept: exec_prompt then calls recv_messages no more,
\* fails no assertion and returns that signal's outcome.
C16_EarlySignalKept ==
    /\ [](\A t \in Threads :
            /\ prompts[t] > 0 => subs[t] > 0
            /\ pc[t] = "L137" => (result[t] = None /\ dismissed[t] = None)
            /\ (pc[t] = "L138" /\ waits[t] = 0) =>
                   /\ OwnSignalObserved(t)
                   /\ AssertsHold(dismissed[t], result[t])
                   /\ << dismissed[t], result[t] >> = SignalOutcome(t)
            /\ (exec_ret[t] # None /\ waits[t] = 0) =>
                   /\ OwnSignalObserved(t)
                   /\ exec_ret[t][1] = SignalOutcome(t))
    /\ [][\A t \in Threads :
            /\ (pc[t] = "L135_wait" /\ result[t] # None) => pc'[t] # "L137"
            /\ (pc[t] = "L135_wait" /\ result[t] # None /\ pc'[t] = "L138") =>
                   waits'[t] = 0
            /\ waits'[t] # waits[t] => result[t] = None]_vars

\* C16 witness: exec_prompt has returned the outcome of a signal that was
\* dispatched while it waited for the reply to 'Prompt'; it never called
\* recv_messages itself.
C16_Witness ==
    \E t \in Threads :
        /\ entry[t] = "exec_prompt"
        /\ pc[t] = "done"
        /\ exec_ret[t] # None
        /\ waits[t] = 0
        /\ prompts[t] = 1

\* The failures the wrapper makes of the error replies of the prompt flows.
WrapperFailures == { TranslateError(e[1], e[2]) : e \in PromptErrors }

\* C18: when the 'Prompt' call fails, exec_prompt leaves at once with the
\* wrapper's exception: recv_messages is not called for a signal and no
\* outcome is returned; when the 'Unlock' call fails, unlock_objects leaves
\* at once: nothing is subscribed and no 'Prompt' call is sent.
C18_RpcFailureLeavesAtOnce ==
    /\ [](\A t \in Threads :
            (pc[t] = "raised" /\ err[t].kind \notin { "AssertionError", "TypeError" }) =>
                /\ err[t] \in WrapperFailures
                /\ waits[t] = 0
                /\ exec_ret[t] = None
                /\ ret[t] = None
                /\ prompts[t] = 0 =>
                       /\ subs[t] = 0
                       /\ \A e \in signal_callbacks : e[2] # t)
    /\ [][\A t \in Threads :
            /\ ( /\ pc[t] \in { "L149", "L135_wait" }
                 /\ reply[t] # None
                 /\ reply[t][1].type = "error"
                 /\ pc'[t] # pc[t] ) =>
                   /\ pc'[t] = "raised"
                   /\ err'[t] = TranslateError(reply[t][1].error_name, reply[t][1].data)
                   /\ waits'[t] = waits[t]
                   /\ subs'[t] = subs[t]
                   /\ prompts'[t] = prompts[t]
                   /\ exec_ret'[t] = None /\ ret'[t] = None
            /\ pc[t] = "raised" =>
                   /\ pc'[t] = "raised"
                   /\ waits'[t] = waits[t]
                   /\ subs'[t] = subs[t]
                   /\ prompts'[t] = prompts[t]
                   /\ exec_ret'[t] = exec_ret[t] /\ ret'[t] = ret[t]]_vars

\* C18 witness: the 'Prompt' call of an unlock_objects failed after the
\* callback was subscribed; the caller has the exception and no outcome.
C18_Witness ==
    \E t \in Threads :
        /\ entry[t] = "unlock_objects"
        /\ pc[t] = "raised"
        /\ prompts[t] = 1
        /\ err[t].kind = "ItemNotFoundException"
        /\ waits[t] = 0

C15_MatchRuleBeforeUse ==
    /\ c_connection # None =>
          /\ c_rules = << [sender |-> BUS_NAME, interface |-> PROMPT_IFACE] >>
          /\ Len(c_calls) = 1
          /\ c_calls[1].member = "AddMatch"
          /\ c_calls[1].destination = "org.freedesktop.DBus"
          /\ c_raw # None
          /\ c_raw[1].type = "method_return"
    /\ \A i \in 1..Len(c_rpcs) :
          c_rpcs[i].rules = << [sender |-> BUS_NAME, interface |-> PROMPT_IFACE] >>
    /\ (c_raw # None /\ c_raw[1].type = "error") =>
          /\ c_pc = "raised"
          /\ c_err # NoExc
          /\ c_connection = None
          /\ c_rpcs = <<>>
    /\ Len(c_calls) <= 1
    /\ Len(c_rules) <= 1

\* C15 witness: a prompt flow was started on a connection dbus_init returned.
C15_Witness ==
    /\ c_connection # None
    /\ Len(c_rpcs) >= 1
    /\ c_rpcs[1].kind = "prompt flow"
    /\ c_rpcs[1].outcome = "returned"

====
